---- MODULE Spec2Model ----
(***************************************************************************)
(* Model of package dbg of github.com/go-logr/lib (dbg/backtrace.go):      *)
(* Backtrace(opts ...BacktraceOption), its three options and the helper    *)
(* stacks(all).                                                            *)
(*                                                                         *)
(* The Go runtime is the environment.  A goroutine's call stack at the     *)
(* moment runtime.Callers runs is a sequence of frames, innermost first:   *)
(*   runtime.Callers, dbg.Backtrace, the callers of Backtrace ...,         *)
(*   runtime.goexit.                                                       *)
(* A program counter is modelled by the 1-based position of its frame in   *)
(* that sequence (0 is the zero pc of an unused buffer slot); one pc       *)
(* stands for one logical frame, as runtime.Callers reports them.          *)
(* Go's int has a fixed width that depends on the build (32 or 64 bits)    *)
(* and its + wraps around.  The model fixes no width: an int is written    *)
(* as an offset from 0, from math.MaxInt or from math.MinInt of the build, *)
(* so that the same model is the 32-bit and the 64-bit program.  Offsets   *)
(* stay within a few hundred, far less than math.MaxInt on either build,   *)
(* so the three ranges never meet.                                         *)
(***************************************************************************)
EXTENDS Integers, Sequences, FiniteSets, TLC

\* src/dbg/backtrace.go:29
numTotalFrames == 100

\* src/dbg/backtrace.go:138, 140, 143: stacks' start sizes and retry count
stackStartSize == 10000
stackStartSizeAll == 100000
stackAttempts == 5

\* ---- Go's int -------------------------------------------------------------
\* The int v, for a small v; math.MaxInt and math.MinInt of the build;
\* math.MaxInt - j.
int(v) == [near |-> "zero", off |-> v]
MaxInt == [near |-> "max", off |-> 0]
MinInt == [near |-> "min", off |-> 0]
MaxIntMinus(j) == [near |-> "max", off |-> 0 - j]

\* a + b in Go's int, b a small constant: past math.MaxInt the sum goes on
\* from math.MinInt, and below math.MinInt from math.MaxInt.
AddInt(a, b) ==
  LET o == a.off + b
  IN IF a.near = "max" /\ o > 0 THEN [near |-> "min", off |-> o - 1]
     ELSE IF a.near = "min" /\ o < 0 THEN [near |-> "max", off |-> o + 1]
     ELSE [near |-> a.near, off |-> o]

\* a < b and a > b in Go's int, b a small number
LessInt(a, b) == a.near = "min" \/ (a.near = "zero" /\ a.off < b)
GreaterInt(a, b) == a.near = "max" \/ (a.near = "zero" /\ a.off > b)

\* ---- bounds of the model ------------------------------------------------
\* options given to one Backtrace call
MaxOpts == 2
\* shallow call sites: 1..MaxShallow frames call Backtrace (goexit included)
MaxShallow == 3
\* deep call sites: up to numTotalFrames + MaxOver frames call Backtrace
MaxOver == 1
\* small arguments of BacktraceSkip and BacktraceSize
MaxSkip == 2
MaxSize == 2

Min(a, b) == IF a < b THEN a ELSE b

\* number of frames below Backtrace at the call site (the last is goexit)
Depths == (1..MaxShallow) \cup ((numTotalFrames - 1)..(numTotalFrames + MaxOver))
SkipVals ==
  {int(v) : v \in (-3..MaxSkip) \cup {numTotalFrames - 1, numTotalFrames + MaxOver}}
    \cup {MaxIntMinus(j) : j \in 0..2}
SizeVals ==
  {int(v) : v \in (-1..MaxSize) \cup {numTotalFrames - 1, numTotalFrames, numTotalFrames + 1}}
    \cup {MaxInt}

\* ---- traceT ---------------------------------------------------------------
\* traceT{skip: 0, numframes: 0}; buf is the text as the sequence of the
\* pieces appended to it (<<>> is the nil/empty buffer).
traceT == [buf |-> <<>>, all |-> FALSE, skip |-> int(0), numframes |-> int(0)]

\* func (t traceT) String() string
String(t) == t.buf

\* ---- the runtime: frames and symbolisation -------------------------------
\* runtime.Frame: the fields Backtrace formats
ZeroFrame == [Function |-> "", File |-> "", Line |-> 0]

\* The stack seen by runtime.Callers when depth frames call Backtrace.
Stack(depth) ==
  [i \in 1..(depth + 2) |->
     IF i = 1 THEN [Function |-> "runtime.Callers", File |-> "/go/src/runtime/extern.go", Line |-> 325]
     ELSE IF i = 2 THEN [Function |-> "github.com/go-logr/lib/dbg.Backtrace", File |-> "/lib/dbg/backtrace.go", Line |-> 94]
     ELSE IF i = depth + 2 THEN [Function |-> "runtime.goexit", File |-> "/go/src/runtime/asm_amd64.s", Line |-> 1650]
     ELSE [Function |-> "main.f" \o ToString(i - 2), File |-> "/app/f" \o ToString(i - 2) \o ".go", Line |-> 10 + i]]

IsGoexit(p, stack) == p = Len(stack)

\* A []uintptr: backing array (its length is the capacity) and a length.
make(n) == [arr |-> [i \in 1..n |-> 0], len |-> n]
PanicSlice == [arr |-> <<>>, len |-> -1]
Items(s) == SubSeq(s.arr, 1, s.len)

\* s[:hi]: a run-time panic unless 0 <= hi <= cap(s)
SliceTo(s, hi) ==
  IF s.len < 0 \/ hi < 0 \/ hi > Len(s.arr) THEN PanicSlice ELSE [s EXCEPT !.len = hi]
\* s[:hi] for an int hi: near math.MaxInt or math.MinInt it is out of range
SliceToInt(s, hi) == IF hi.near = "zero" THEN SliceTo(s, hi.off) ELSE PanicSlice

\* runtime.Callers(skip, pc): fills pc with the pcs of the frames from the
\* skip-th on (0 = Callers itself; a negative skip skips nothing) and
\* returns how many it wrote, at most len(pc).  A skip near math.MaxInt
\* is past the end of every stack.
Callers(skip, pc, stack) ==
  LET s == IF LessInt(skip, 0) THEN 0
           ELSE IF skip.near = "max" THEN Len(stack)
           ELSE Min(skip.off, Len(stack))
      n == Min(pc.len, Len(stack) - s)
  IN [count |-> n, pcs |-> [pc EXCEPT !.arr = [i \in 1..Len(pc.arr) |-> IF i <= n THEN s + i ELSE pc.arr[i]]]]

\* The frame runtime.CallersFrames resolves a pc to.
FuncForPC(p, stack) == IF p \in 1..Len(stack) THEN stack[p] ELSE ZeroFrame

\* The frames that the calls of Frames.Next() return until it reports
\* more = false: one per pc, and the zero Frame alone when there is no pc
\* (Next returns it, with more = false, on its first call).
FramesUntilDone(pcs, stack) ==
  IF pcs = <<>> THEN <<ZeroFrame>>
  ELSE [i \in 1..Len(pcs) |-> FuncForPC(pcs[i], stack)]

\* fmt.Sprintf("%s():\n\t%s:%v\n", frame.Function, frame.File, frame.Line)
Sprintf(frame) ==
  frame.Function \o "():\n\t" \o frame.File \o ":" \o ToString(frame.Line) \o "\n"

\* ---- the options ----------------------------------------------------------
\* The closures the three option constructors return, applied to t.
BacktraceAllBody(all, t) == [t EXCEPT !.all = all]
BacktraceSkipBody(depth, t) == [t EXCEPT !.skip = depth]
\* (variant: the numFrames > 0 guard left out)
BacktraceSizeAlways(numFrames, t) == [t EXCEPT !.numframes = numFrames]
BacktraceSizeBody(numFrames, t) ==
  IF GreaterInt(numFrames, 0) THEN [t EXCEPT !.numframes = numFrames] ELSE t

\* The option values: which constructor made it, and its argument.
BacktraceAll(all) == [opt |-> "all", flag |-> all, arg |-> int(0)]
BacktraceSkip(depth) == [opt |-> "skip", flag |-> FALSE, arg |-> depth]
BacktraceSize(numFrames) == [opt |-> "size", flag |-> FALSE, arg |-> numFrames]

\* opt(&trace)
ApplyOpt(opt, t) ==
  IF opt.opt = "all" THEN BacktraceAllBody(opt.flag, t)
  ELSE IF opt.opt = "skip" THEN BacktraceSkipBody(opt.arg, t)
  ELSE BacktraceSizeBody(opt.arg, t)

\* for _, opt := range opts { opt(&trace) }
RECURSIVE ApplyOpts(_, _)
ApplyOpts(opts, t) ==
  IF opts = <<>> THEN t ELSE ApplyOpts(Tail(opts), ApplyOpt(Head(opts), t))

\* ---- stacks ---------------------------------------------------------------
\* runtime.Stack(buf, all): writes the dump, truncated to len(buf), and
\* returns the number of bytes written.
RuntimeStack(buflen, dumpsize) == Min(buflen, dumpsize)

\* if nbytes < len(trace)
\* (variant: <= for <)
FitsOrFills(nbytes, buflen) == nbytes <= buflen
Fits(nbytes, buflen) == nbytes < buflen

\* stacks' loop from attempt i (0-based) with buffer size n.  dumps[i+1] is
\* the size of the dump the runtime has to write at that attempt.  A
\* buffer is [dump, cap, bytes]: the first `bytes` bytes of the dump
\* written at attempt `dump` into a buffer made with `cap` bytes; calls
\* logs the buffer size and the count returned by each runtime.Stack call.
RECURSIVE stacksLoop(_, _, _, _, _)
stacksLoop(i, n, dumps, trace, calls) ==
  IF i >= stackAttempts THEN [buf |-> trace, calls |-> calls]
  ELSE LET nbytes == RuntimeStack(n, dumps[i + 1])
           made == [dump |-> i + 1, cap |-> n, bytes |-> n]
           log == Append(calls, [buflen |-> n, nbytes |-> nbytes])
       IN IF Fits(nbytes, n)
          THEN [buf |-> [made EXCEPT !.bytes = nbytes], calls |-> log]
          ELSE stacksLoop(i + 1, n * 2, dumps, made, log)

\* var trace []byte
NilBuffer == [dump |-> 0, cap |-> 0, bytes |-> 0]

\* func stacks(all bool) []byte
stacks(all, dumps) ==
  stacksLoop(0, IF all THEN stackStartSizeAll ELSE stackStartSize, dumps, NilBuffer, <<>>)

\* ---- Backtrace -------------------------------------------------------------
\* What one call did: what it returned (kind "trace", "nil" or "panic"),
\* what it wrote to standard output, and its calls of the runtime.
Outcome(kind, ret, stdout, callers, stackcalls, dropped, kept) ==
  [kind |-> kind, ret |-> ret, stdout |-> stdout, callers |-> callers,
   stackcalls |-> stackcalls, dropped |-> dropped, kept |-> kept]
NoOutcome == Outcome("none", traceT, <<>>, <<>>, <<>>, <<>>, <<>>)

\* if trace.all
\* (variant: all honoured only without a skip)
UseAllUnlessSkip(trace) == trace.all /\ trace.skip = int(0)
UseAll(trace) == trace.all

\* trace.buf = stacks(true); return trace
AllBranch(trace, dumps) ==
  LET r == stacks(TRUE, dumps)
  IN Outcome("trace", [trace EXCEPT !.buf = <<r.buf>>], <<>>, <<>>, r.calls, <<>>, <<>>)

\* if n == 0
\* (variant: the early return left out)
NoPCsNever(n) == FALSE
NoPCs(n) == n = 0

\* if n > numTotalFrames
\* (variant: >= for >)
TooManyPCsAtCap(n) == n >= numTotalFrames
TooManyPCs(n) == n > numTotalFrames

\* pc = pc[:n-1]
\* (variant: the last address kept)
DropNone(pc, n) == SliceTo(pc, n)
DropLast(pc, n) == SliceTo(pc, n - 1)

\* if trace.numframes > 0 && trace.numframes < n { pc = pc[:trace.numframes] }
\* (variants: the numframes < n guard left out; one frame too many)
LimitFramesUnguarded(pc, numframes, n) ==
  IF GreaterInt(numframes, 0) THEN SliceToInt(pc, numframes) ELSE pc
LimitFramesOffByOne(pc, numframes, n) ==
  IF GreaterInt(numframes, 0) /\ LessInt(AddInt(numframes, 1), n)
  THEN SliceToInt(pc, AddInt(numframes, 1)) ELSE pc
LimitFrames(pc, numframes, n) ==
  IF GreaterInt(numframes, 0) /\ LessInt(numframes, n) THEN SliceToInt(pc, numframes) ELSE pc

\* for { frame, more := frames.Next(); s += Sprintf(...); if !more { break } }
\* The body runs once per frame Next returns, the last one included.
FormatFrames(pcs, stack) ==
  LET fs == FramesUntilDone(pcs, stack)
  IN [i \in 1..Len(fs) |-> Sprintf(fs[i])]

\* lines 92-132: the single-goroutine branch
FramesBranch(trace, stack) ==
  LET pc0 == make(numTotalFrames)
      c == Callers(AddInt(trace.skip, 2), pc0, stack)
      n == c.count
      log == <<[skip |-> AddInt(trace.skip, 2), count |-> n]>>
  IN IF NoPCs(n) THEN Outcome("nil", traceT, <<>>, log, <<>>, <<>>, <<>>)
     ELSE IF TooManyPCs(n)
     THEN Outcome("nil", traceT,
                  <<"error: runtime.Callers returned too many pcs (>" \o ToString(numTotalFrames) \o ")\n">>,
                  log, <<>>, <<>>, <<>>)
     ELSE LET pc1 == DropLast(c.pcs, n)
              pc2 == LimitFrames(pc1, trace.numframes, n)
          IN IF pc1.len < 0 \/ pc2.len < 0
             THEN Outcome("panic", traceT, <<>>, log, <<>>, <<>>, <<>>)
             ELSE LET s == FormatFrames(Items(pc2), stack)
                  IN Outcome("trace",
                             IF s # <<>> THEN [trace EXCEPT !.buf = s] ELSE trace,
                             <<>>, log, <<>>,
                             SubSeq(c.pcs.arr, pc1.len + 1, n), Items(pc2))

\* func Backtrace(opts ...BacktraceOption) interface{}
Backtrace(opts, stack, dumps) ==
  LET trace == ApplyOpts(opts, traceT)
  IN IF UseAll(trace) THEN AllBranch(trace, dumps) ELSE FramesBranch(trace, stack)

\* ---- the state machine -----------------------------------------------------
VARIABLES
  phase,  \* "build": the caller is assembling options; "returned": Backtrace returned
  opts,   \* the options assembled for the call
  depth,  \* frames below Backtrace at the call site, goexit included
  dumps,  \* the size of the runtime's dump at each attempt of the call (<<>>: not drawn)
  out,    \* the Outcome of the call
  sall,   \* stacks on its own: its argument ...
  sdumps, \* ... the dump sizes the runtime has at each attempt ...
  sout    \* ... and its result
vars == <<phase, opts, depth, dumps, out, sall, sdumps, sout>>

\* dump sizes the runtime may have to write during a Backtrace call
CallDumpSizes == {stackStartSizeAll - 1, stackStartSizeAll * 16}
CallDumps == [1..stackAttempts -> CallDumpSizes]
\* The runtime's dump is drawn only for a call that asks for all goroutines;
\* no other call looks at it.
RuntimeDumps(os) == IF ApplyOpts(os, traceT).all THEN CallDumps ELSE {<<>>}

NoStacks == [buf |-> NilBuffer, calls |-> <<>>]

Init ==
  /\ phase = "build"
  /\ opts = <<>>
  /\ depth \in Depths
  /\ dumps = <<>>
  /\ out = NoOutcome
  /\ sall = FALSE
  /\ sdumps = <<>>
  /\ sout = NoStacks

AddOption(opt) ==
  /\ phase = "build"
  /\ Len(opts) < MaxOpts
  /\ opts' = Append(opts, opt)
  /\ UNCHANGED <<phase, depth, dumps, out, sall, sdumps, sout>>

AddAll == \E all \in BOOLEAN : AddOption(BacktraceAll(all))
AddSkip == \E d \in SkipVals : AddOption(BacktraceSkip(d))
AddSize == \E n \in SizeVals : AddOption(BacktraceSize(n))

CallBacktrace ==
  /\ phase = "build"
  /\ \E d \in RuntimeDumps(opts) :
       /\ out' = Backtrace(opts, Stack(depth), d)
       /\ dumps' = d
  /\ phase' = "returned"
  /\ UNCHANGED <<opts, depth, sall, sdumps, sout>>

\* the caller moves on to another call site
NextCall ==
  /\ phase = "returned"
  /\ phase' = "build"
  /\ opts' = <<>>
  /\ depth' \in Depths
  /\ dumps' = <<>>
  /\ out' = NoOutcome
  /\ UNCHANGED <<sall, sdumps, sout>>

Next == AddAll \/ AddSkip \/ AddSize \/ CallBacktrace \/ NextCall

Spec == Init /\ [][Next]_vars

\* ---- stacks on its own -----------------------------------------------------
\* dump sizes around the first, third and fifth buffer size
StackDumpSizes(all) ==
  LET s0 == IF all THEN stackStartSizeAll ELSE stackStartSize
  IN {s0 - 1, s0, 4 * s0 - 1, 4 * s0, 16 * s0 - 1, 16 * s0}

InitStacks ==
  /\ phase = "stacks"
  /\ opts = <<>>
  /\ depth = 1
  /\ dumps = <<>>
  /\ out = NoOutcome
  /\ sall \in BOOLEAN
  /\ sdumps \in [1..stackAttempts -> StackDumpSizes(sall)]
  /\ sout = NoStacks

CallStacks ==
  /\ phase = "stacks"
  /\ sout' = stacks(sall, sdumps)
  /\ phase' = "stacksdone"
  /\ UNCHANGED <<opts, depth, dumps, out, sall, sdumps>>

NextStacks == CallStacks

SpecStacks == InitStacks /\ [][NextStacks]_vars

\* ---- what the claims speak of ----------------------------------------------
Returned == phase = "returned"
\* the configuration the options of the call build
cfg == ApplyOpts(opts, traceT)
\* the stack at the call site
site == Stack(depth)
\* the text of an outcome as its sequence of frame blocks (none for nil)
Blocks(o) == IF o.kind = "trace" THEN String(o.ret) ELSE <<>>
\* a count given as an int: 0 when negative, at most len
Count(a, len) ==
  IF LessInt(a, 0) THEN 0 ELSE IF a.near = "max" THEN len ELSE Min(a.off, len)
DropFirst(seq, k) == SubSeq(seq, Count(k, Len(seq)) + 1, Len(seq))
FirstN(seq, k) == SubSeq(seq, 1, Count(k, Len(seq)))
\* the skip of the call is more than math.MaxInt - 2: skip + 2 wraps
SkipWraps == cfg.skip.near = "max" /\ cfg.skip.off > 0 - 2
\* the block Backtrace writes for the frame of pc p
BlockOf(p) == Sprintf(FuncForPC(p, site))
ZeroBlock == Sprintf(ZeroFrame)

\* the options of the call with every BacktraceSkip argument replaced by k
WithSkip(k) == [i \in 1..Len(opts) |-> IF opts[i].opt = "skip" THEN BacktraceSkip(k) ELSE opts[i]]
WithSkip0 == WithSkip(int(0))
IsNotSize(o) == o.opt # "size"
IsAllOption(o) == o.opt = "all"
\* ... with the BacktraceSize options removed
WithoutSize == SelectSeq(opts, IsNotSize)
\* ... with only the BacktraceAll options kept
OnlyAll == SelectSeq(opts, IsAllOption)

\* the same call site and runtime, other options
Again(os) == Backtrace(os, site, dumps)

\* positions of the options of one kind, and the last of a set of positions
Targets(which) == {i \in 1..Len(opts) : opts[i].opt = which}
EffectiveSize == {i \in Targets("size") : GreaterInt(opts[i].arg, 0)}
Last(S) == CHOOSE i \in S : \A j \in S : j <= i

\* C1 as stated: for every stack depth and every k >= 0, with all=false and
\* the same frame limit, the blocks of Backtrace(BacktraceSkip(k)) are the
\* blocks of Backtrace(BacktraceSkip(0)) with exactly the first k removed.
C1_SkipRemovesFirstK_AsStated ==
  (Returned /\ ~cfg.all /\ ~LessInt(cfg.skip, 0))
    => Blocks(out) = DropFirst(Blocks(Again(WithSkip0)), cfg.skip)

\* C1 amended: with all=false, no frame limit (numframes = 0), a call site
\* of at most numTotalFrames frames (goexit included) and k >= 0: while a
\* frame other than goexit remains (k <= depth-2) the blocks are those of
\* skip 0 with the first k removed; at k = depth-1 the result is a Trace
\* of one zero-frame block; from k = depth on the result is nil, except
\* that for k > math.MaxInt-2 the sum k+2 wraps to a negative number,
\* runtime.Callers skips nothing, and the result is that of skip -2: a
\* Trace that starts with the frames of runtime.Callers and Backtrace.
C1_SkipRemovesFirstK ==
  (Returned /\ ~cfg.all /\ cfg.numframes = int(0) /\ ~LessInt(cfg.skip, 0)
     /\ depth <= numTotalFrames)
    => LET ref == Again(WithSkip0)
       IN IF SkipWraps
          THEN /\ out.kind = "trace"
               /\ Blocks(out) = Blocks(Again(WithSkip(int(0 - 2))))
               /\ Blocks(out)[1] = BlockOf(1) /\ Blocks(out)[2] = BlockOf(2)
          ELSE IF ~GreaterInt(cfg.skip, depth - 2)
          THEN /\ out.kind = "trace" /\ ref.kind = "trace"
               /\ Blocks(out) = DropFirst(Blocks(ref), cfg.skip)
               /\ Len(Blocks(out)) = depth - 1 - cfg.skip.off
          ELSE IF cfg.skip = int(depth - 1)
          THEN out.kind = "trace" /\ Blocks(out) = <<ZeroBlock>>
          ELSE out.kind = "nil"

C1_Witness ==
  /\ Returned /\ ~cfg.all /\ cfg.numframes = int(0)
  /\ cfg.skip = int(1) /\ depth = 3
  /\ out.kind = "trace"
  /\ Blocks(out) = <<BlockOf(4)>>
  /\ Blocks(Again(WithSkip0)) = <<BlockOf(3), BlockOf(4)>>

\* C2: for every skip k >= 0 and frame limit n > 0 with all=false, in either
\* option order, the result has at most n blocks and is the first n blocks
\* of the result of the same call with the same skip and no frame limit.
C2_LimitAfterSkip ==
  (Returned /\ ~cfg.all /\ ~LessInt(cfg.skip, 0) /\ GreaterInt(cfg.numframes, 0))
    => LET ref == Again(WithoutSize)
       IN /\ out.kind = ref.kind
          /\ ~LessInt(cfg.numframes, Len(Blocks(out)))
          /\ Blocks(out) = FirstN(Blocks(ref), cfg.numframes)

C2_Witness ==
  /\ Returned /\ depth = numTotalFrames
  /\ opts = <<BacktraceSize(int(2)), BacktraceSkip(int(1))>>
  /\ Blocks(out) = <<BlockOf(4), BlockOf(5)>>
  /\ Len(Blocks(Again(WithoutSize))) = numTotalFrames - 2

\* C3 as stated: every field of the configuration used by the capture is
\* the value given by the last option that targets it (the default when
\* none does), a later BacktraceSize(0) after BacktraceSize(n) included.
C3_LastOptionWins_AsStated ==
  (Returned /\ out.kind = "trace")
    => /\ out.ret.all = (IF Targets("all") = {} THEN FALSE ELSE opts[Last(Targets("all"))].flag)
       /\ out.ret.skip = (IF Targets("skip") = {} THEN int(0) ELSE opts[Last(Targets("skip"))].arg)
       /\ out.ret.numframes = (IF Targets("size") = {} THEN int(0) ELSE opts[Last(Targets("size"))].arg)

\* C3 amended: all and skip are the values of the last BacktraceAll and the
\* last BacktraceSkip option; the frame limit is the argument of the last
\* BacktraceSize option whose argument is positive (0 when there is none):
\* a BacktraceSize with an argument <= 0 changes nothing.
C3_LastOptionWins ==
  (Returned /\ out.kind = "trace")
    => /\ out.ret.all = (IF Targets("all") = {} THEN FALSE ELSE opts[Last(Targets("all"))].flag)
       /\ out.ret.skip = (IF Targets("skip") = {} THEN int(0) ELSE opts[Last(Targets("skip"))].arg)
       /\ out.ret.numframes = (IF EffectiveSize = {} THEN int(0) ELSE opts[Last(EffectiveSize)].arg)

C3_Witness ==
  /\ Returned /\ out.kind = "trace"
  /\ opts = <<BacktraceSize(int(1)), BacktraceSize(int(0))>>
  /\ out.ret.numframes = int(1)

\* C4: when the options end with all=true the result is a Trace whose text
\* is what stacks(true) returned, runtime.Callers is never called, and the
\* text is the one the same call returns without its BacktraceSkip and
\* BacktraceSize options.
C4_AllIgnoresSkipAndSize ==
  (Returned /\ cfg.all)
    => /\ out.kind = "trace"
       /\ String(out.ret) = <<stacks(TRUE, dumps).buf>>
       /\ out.stackcalls = stacks(TRUE, dumps).calls
       /\ out.callers = <<>>
       /\ Again(OnlyAll).kind = "trace"
       /\ String(out.ret) = String(Again(OnlyAll).ret)

C4_Witness ==
  /\ Returned /\ cfg.all /\ GreaterInt(cfg.skip, 0)
  /\ opts[1].opt = "skip"
  /\ out.kind = "trace"
  /\ Len(out.stackcalls) > 1

\* C5: with all=false, whenever runtime.Callers returns zero addresses (as
\* it does when skip is at least the depth of the stack and skip+2 does
\* not wrap) Backtrace returns nil, not a Trace, and writes no diagnostic.
C5_NoPCsGivesNil ==
  (Returned /\ ~cfg.all)
    => /\ Len(out.callers) = 1
       /\ ((~LessInt(cfg.skip, depth) /\ ~SkipWraps) => out.callers[1].count = 0)
       /\ (out.callers[1].count = 0 => (out.kind = "nil" /\ out.stdout = <<>>))

C5_Witness ==
  /\ Returned /\ ~cfg.all /\ ~LessInt(cfg.skip, depth)
  /\ out.callers[1].count = 0
  /\ out.kind = "nil"

\* C7: for every skip, frame limit, all flag and stack depth Backtrace
\* returns nil or a Trace: neither pc[:n-1] nor pc[:numframes] is out of
\* the bounds of the numTotalFrames-element buffer, so it never panics.
C7_NeverPanics ==
  Returned => (out.kind \in {"nil", "trace"} /\ Len(out.kept) <= numTotalFrames)

C7_Witness ==
  /\ Returned /\ ~cfg.all
  /\ GreaterInt(cfg.numframes, numTotalFrames)
  /\ out.callers[1].count = numTotalFrames
  /\ out.kind = "trace"

\* C8 as stated: with all=false and a non-nil result the text is exactly
\* one block per address left after the drop and the limit, in order, so
\* it is empty when no address is left.
C8_OneBlockPerAddress_AsStated ==
  (Returned /\ ~cfg.all /\ out.kind = "trace")
    => String(out.ret) = [i \in 1..Len(out.kept) |-> BlockOf(out.kept[i])]

\* C9 as stated: with all=false the address dropped by pc[:n-1] is always
\* the goexit frame, whatever the stack depth and the skip.
C9_DropsGoexit_AsStated ==
  (Returned /\ ~cfg.all /\ out.kind = "trace")
    => (Len(out.dropped) = 1 /\ IsGoexit(out.dropped[1], site))

\* C10: with all=false the count n that runtime.Callers returns is within
\* 0..numTotalFrames, the diagnostic is never printed, the result is nil
\* only when n = 0, and a stack with more than numTotalFrames frames left
\* after the skip passed to runtime.Callers
\* gives a Trace of at most numTotalFrames-1 blocks.
C10_TooManyUnreachable ==
  (Returned /\ ~cfg.all)
    => /\ Len(out.callers) = 1
       /\ out.callers[1].count \in 0..numTotalFrames
       /\ out.stdout = <<>>
       /\ (out.kind = "nil" <=> out.callers[1].count = 0)
       /\ (Len(site) - Count(out.callers[1].skip, Len(site)) > numTotalFrames
             => (out.kind = "trace" /\ Len(Blocks(out)) <= numTotalFrames - 1))

C10_Witness ==
  /\ Returned /\ ~cfg.all
  /\ depth > numTotalFrames /\ cfg.skip = int(0)
  /\ out.callers[1].count = numTotalFrames
  /\ out.kind = "trace"
  /\ Len(Blocks(out)) = numTotalFrames - 1

\* the buffer sizes of stacks' attempts: the start size, doubled each time
BufferSizes(all) ==
  IF all THEN <<100000, 200000, 400000, 800000, 1600000>>
  ELSE <<10000, 20000, 40000, 80000, 160000>>

\* C6: stacks calls runtime.Stack at most 5 times, with the buffer sizes
\* 100000, 200000, 400000, 800000, 1600000 (10000, ... for one goroutine);
\* it returns at the first attempt that did not fill its buffer, with the
\* bytes that attempt wrote, and else the full buffer of the fifth attempt.
C6_StacksBounded ==
  (phase = "stacksdone")
    => LET k == Len(sout.calls)
           sizes == BufferSizes(sall)
       IN /\ k \in 1..5
          /\ \A j \in 1..k :
               /\ sout.calls[j].buflen = sizes[j]
               /\ sout.calls[j].nbytes = Min(sizes[j], sdumps[j])
          /\ \A j \in 1..(k - 1) : sdumps[j] >= sizes[j]
          /\ IF sdumps[k] < sizes[k]
             THEN sout.buf = [dump |-> k, cap |-> sizes[k], bytes |-> sdumps[k]]
             ELSE k = 5 /\ sout.buf = [dump |-> 5, cap |-> sizes[5], bytes |-> sizes[5]]

C6_Witness ==
  /\ phase = "stacksdone" /\ sall
  /\ Len(sout.calls) = 5
  /\ sout.buf.bytes = 1600000
  /\ sdumps[1] = 100000

====
